---------------------------- MODULE Spec2Model ----------------------------
(***************************************************************************)
(* A model of the daily-reading repository.                                *)
(*                                                                         *)
(*   - src/daily_ssrn/check_stats.py: the JSONL store, the same-day merge, *)
(*     the rolling-window deduplication and the workflow gate (main).      *)
(*     Specification Spec; SpecDaily runs the gate day after day.          *)
(*   - src/daily_ssrn/daily_ssrn/spiders/ssrn.py: the paginated crawl      *)
(*     traversal.  Specification SpecCrawl (SpecCrawlFair with fairness).  *)
(*                                                                         *)
(* A store file is modelled by what json.loads makes of each of its lines: *)
(* a JSON object (kind "rec"), a blank line (kind "blank") or a line that  *)
(* is not valid JSON (kind "bad").  A key that a JSON object lacks is the  *)
(* value Missing (id) or hasCat = FALSE (category).                        *)
(***************************************************************************)
EXTENDS Integers, Sequences, FiniteSets, TLC

(***************************************************************************)
(* Bounds of the model.                                                    *)
(***************************************************************************)
\* the longest daily store (in lines) the gate is started on
MaxLines == 2
\* the longest category list of a stored record
MaxCats == 2
\* calls of perform_merge / perform_deduplication made directly (as a test
\* or another caller would) before the gate runs
MaxDirectCalls == 1

\* the stores that exist at one time when the gate is run day after day
MaxStoreDays == 3

\* the longest category listing the remote source serves
MaxListing == 4
\* the entries of one listing page.  The spider asks for count=50 and steps
\* the index by 50 (ssrn.py lines 42, 61, 83); the model keeps the two equal
\* and scales them down
PageSize == 2

(***************************************************************************)
(* Program constants.                                                      *)
(***************************************************************************)
\* history_days, check_stats.py line 85
history_days == 7

(***************************************************************************)
(* The universe of values.                                                 *)
(***************************************************************************)
Ids == {"A", "B"}
Cats == {"IS", "MKT"}
\* the fields of a record other than id and category (its detail): the
\* record on line n of the day's store carries detail n
Details == 0 .. MaxLines
\* the marker of an absent "id" key
Missing == "<missing>"

\* the calendar days of the model; day d's store is ../data/<d>.jsonl
LastDay == history_days + 1
Days == 0 .. LastDay
\* the dates the operations are called for: on day LastDay day 1 is the
\* oldest day of the window and day 0 lies outside it; on day 2 both
\* days 0 and 1 lie inside
RunDays == {2, LastDay}

SeqsUpTo(S, n) == UNION {[1 .. k -> S] : k \in 0 .. n}

CatSeqs == SeqsUpTo(Cats, MaxCats)

MkRec(i, c, d) ==
    [kind |-> "rec", id |-> i, hasCat |-> TRUE, category |-> c, detail |-> d]

\* a JSON object without an "id" key
NoIdLine == [kind |-> "rec", id |-> Missing, hasCat |-> TRUE,
             category |-> <<"IS">>, detail |-> 0]
\* a JSON object without a "category" key
NoCatLine == [kind |-> "rec", id |-> "A", hasCat |-> FALSE,
              category |-> <<>>, detail |-> 0]
\* a line that json.loads rejects
BadLine == [kind |-> "bad", id |-> Missing, hasCat |-> FALSE,
            category |-> <<>>, detail |-> 0]
\* a line of white space
BlankLine == [kind |-> "blank", id |-> Missing, hasCat |-> FALSE,
              category |-> <<>>, detail |-> 0]

\* the lines of a store, before their details are told apart
WellFormedRecs == {MkRec(i, c, 0) : i \in Ids, c \in CatSeqs}
Lines == WellFormedRecs \cup {NoIdLine, NoCatLine, BadLine, BlankLine}
\* the lines whose records carry the one category IS
PlainLines == {MkRec(i, <<"IS">>, 0) : i \in Ids}
                 \cup {NoIdLine, NoCatLine, BadLine, BlankLine}

\* the store whose line n is ls[n] with detail n
Numbered(ls) == [n \in DOMAIN ls |-> [ls[n] EXCEPT !.detail = n]]

AbsentFile == [exists |-> FALSE, lines |-> <<>>]
FileOf(ls) == [exists |-> TRUE, lines |-> ls]

\* the contents of the stores of the days before the run day
HistoryFiles0 == {AbsentFile,
                  FileOf(<<MkRec("A", <<"IS">>, 1)>>),
                  FileOf(<<MkRec("A", <<"IS">>, 1), BadLine>>),
                  FileOf(<<NoIdLine>>)}
HistoryFiles1 == {AbsentFile, FileOf(<<MkRec("B", <<"MKT">>, 1)>>)}

\* the state of the file system that makes a file operation fail
Envs == {"ok", "today_unreadable", "today_readonly", "dir_readonly",
         "disk_full", "history_unreadable"}

Statuses == {"merge_success", "has_new_content", "no_new_content",
             "no_data", "error"}
\* the outcome of a call that ends by an exception leaving the function
Raised == "raised"

(***************************************************************************)
(* State.                                                                  *)
(***************************************************************************)
VARIABLES
    files,        \* [Days -> file]: the store files under ../data
    env,          \* the file-system condition (which operations fail)
    arg,          \* the --date argument: [valid, day]
    pc,           \* where main is
    merge_status, \* main's local merge_status ("" before it is assigned)
    dedup_status, \* main's local dedup_status ("" before it is assigned)
    exitCode,     \* the argument of sys.exit (-1 while running)
    exitVia,      \* "running", "sys.exit" or "exception"
    calls,        \* history: every call of perform_merge / _deduplication
    crawl         \* the state of the crawl traversal (see SpecCrawl)

gateVars == <<files, env, arg, pc, merge_status, dedup_status, exitCode,
              exitVia, calls>>
vars == <<files, env, arg, pc, merge_status, dedup_status, exitCode,
          exitVia, calls, crawl>>


(***************************************************************************)
(* The JSONL store: check_stats.py, load_papers_data and save_papers_data. *)
(***************************************************************************)
\* os.path.exists(f"../data/{day}.jsonl"); a day outside Days has no file
Exists(day) == day \in Days /\ files[day].exists

\* open(file_path, 'r') raises: the file system refuses to read the file
Unreadable(day) ==
    \/ env = "today_unreadable" /\ day = arg.day
    \/ env = "history_unreadable" /\ day # arg.day

\* open(file_path, 'w') raises before the file is truncated
Unwritable(day) == env = "today_readonly" /\ day = arg.day

\* paper.get('id', '')
GetId(paper) == IF paper.id = Missing THEN "" ELSE paper.id

NoPapers == [papers |-> <<>>, ids |-> {}]

\* load_papers_data(file_path): (papers, ids).  Any exception while reading
\* (open fails, a line is not valid JSON) is caught and the result is empty.
load_papers_data(day) ==
    IF ~Exists(day) THEN NoPapers
    ELSE IF Unreadable(day)
            \/ \E i \in DOMAIN files[day].lines :
                   files[day].lines[i].kind = "bad"
         THEN NoPapers
    ELSE LET papers == SelectSeq(files[day].lines,
                                 LAMBDA l : l.kind # "blank")
         IN  [papers |-> papers,
              ids |-> {GetId(papers[i]) : i \in DOMAIN papers}]

\* save_papers_data with "for paper in papers[:-1]": the last paper is not
\* written
save_papers_data_DropLast(papers, day) ==
    {[ok |-> TRUE,
      files |-> [files EXCEPT
                   ![day] = FileOf(SubSeq(papers, 1, Len(papers) - 1))]]}

\* save_papers_data(papers, file_path): the set of possible outcomes
\* [ok, files].  open(..., 'w') truncates the file; when the disk is full
\* the writes fail and the file keeps the records written so far.
save_papers_data(papers, day) ==
    IF Unwritable(day) THEN {[ok |-> FALSE, files |-> files]}
    ELSE IF env = "disk_full" /\ Len(papers) > 0
         THEN {[ok |-> FALSE,
                files |-> [files EXCEPT
                             ![day] = FileOf(SubSeq(papers, 1, k))]] :
               k \in 0 .. Len(papers) - 1}
    ELSE {[ok |-> TRUE, files |-> [files EXCEPT ![day] = FileOf(papers)]]}

\* os.remove(history_file) in place of os.remove(today_file): history_file
\* is the loop's last value, the store of day - history_days
os_remove_HistoryFile(day) ==
    IF day - history_days \in Days
    THEN [ok |-> TRUE,
          files |-> [files EXCEPT ![day - history_days] = AbsentFile]]
    ELSE [ok |-> FALSE, files |-> files]

\* os.remove(file_path): [ok, files]
os_remove(day) ==
    IF env = "dir_readonly" THEN [ok |-> FALSE, files |-> files]
    ELSE [ok |-> TRUE, files |-> [files EXCEPT ![day] = AbsentFile]]

(***************************************************************************)
(* Same-day merge: check_stats.py, perform_merge.                          *)
(***************************************************************************)
ToSet(s) == {s[i] : i \in DOMAIN s}

\* list(set(xs)): the distinct values of xs in an order Python's hashing
\* picks; any order is possible
ListOfSet(S) ==
    {s \in [1 .. Cardinality(S) -> S] :
        \A i, j \in 1 .. Cardinality(S) : i # j => s[i] # s[j]}

RECURSIVE MergeLoop(_, _, _)
\* lines 160-167: merged is the dict, as the sequence of its values in
\* insertion order; err is a KeyError raised on the way
MergeLoop(papers, i, merged) ==
    IF i > Len(papers) THEN [err |-> FALSE, merged |-> merged]
    ELSE LET item == papers[i]
             pos == {k \in DOMAIN merged : merged[k].id = item.id}
         IN  IF item.id = Missing
             THEN [err |-> TRUE, merged |-> merged]
             ELSE IF pos = {}
             THEN MergeLoop(papers, i + 1, Append(merged, item))
             ELSE LET k == CHOOSE k \in pos : TRUE
                  IN  IF ~merged[k].hasCat
                      THEN [err |-> TRUE, merged |-> merged]
                      ELSE MergeLoop(papers, i + 1,
                               [merged EXCEPT
                                  ![k].category = @ \o item.category])

\* lines 168-169 left out: the accumulated category lists are kept as they
\* are
MergeResults_KeepList(merged) == {merged}

\* lines 168-170: every value's category becomes list(set(category)); the
\* set of lists this may produce
MergeResults(merged) ==
    {[k \in DOMAIN merged |-> [merged[k] EXCEPT !.category = f[k]]] :
       f \in {g \in [DOMAIN merged -> UNION {ListOfSet(C) : C \in SUBSET Cats}] :
                \A k \in DOMAIN merged :
                    g[k] \in ListOfSet(ToSet(merged[k].category))}}

\* perform_merge(date): the set of possible outcomes [status, files]
perform_merge(a) ==
    IF ~a.valid THEN {[status |-> Raised, files |-> files]}
    ELSE IF ~Exists(a.day) THEN {[status |-> "no_data", files |-> files]}
    ELSE LET today_papers == load_papers_data(a.day).papers
             loop == MergeLoop(today_papers, 1, <<>>)
         IN  IF today_papers = <<>>
             THEN {[status |-> "no_data", files |-> files]}
             ELSE IF loop.err
                     \/ \E k \in DOMAIN loop.merged : ~loop.merged[k].hasCat
             THEN {[status |-> "error", files |-> files]}
             ELSE {[status |-> IF s.ok THEN "merge_success" ELSE "error",
                    files |-> s.files] :
                   s \in UNION {save_papers_data(result, a.day) :
                                  result \in MergeResults(loop.merged)}}

(***************************************************************************)
(* Rolling-window deduplication: check_stats.py, perform_deduplication.    *)
(***************************************************************************)
\* the loop written "for i in range(0, history_days + 1)": the day's own
\* store counts as history
HistoryIds_FromToday(day) ==
    UNION {load_papers_data(day - i).ids : i \in 0 .. history_days}

\* lines 99-104: the ids of the stores of the history_days days before day
HistoryIds(day) ==
    UNION {load_papers_data(day - i).ids : i \in 1 .. history_days}

\* perform_deduplication(date): the set of possible outcomes [status, files]
perform_deduplication(a) ==
    IF ~a.valid THEN {[status |-> Raised, files |-> files]}
    ELSE IF ~Exists(a.day) THEN {[status |-> "no_data", files |-> files]}
    ELSE LET today == load_papers_data(a.day)
             duplicate_ids == today.ids \cap HistoryIds(a.day)
             new_papers == SelectSeq(today.papers,
                               LAMBDA p : GetId(p) \notin duplicate_ids)
         IN  IF today.papers = <<>>
             THEN {[status |-> "no_data", files |-> files]}
             ELSE IF duplicate_ids = {}
             THEN {[status |-> "has_new_content", files |-> files]}
             ELSE IF new_papers # <<>>
             THEN {[status |-> IF s.ok THEN "has_new_content" ELSE "error",
                    files |-> s.files] :
                   s \in save_papers_data(new_papers, a.day)}
             ELSE {[status |-> "no_new_content",
                    files |-> os_remove(a.day).files]}

\* the local duplicate_ids of perform_deduplication (line 108) where the
\* call gets that far, for the call history
DuplicateIds(a) ==
    IF a.valid /\ Exists(a.day) /\ load_papers_data(a.day).papers # <<>>
    THEN load_papers_data(a.day).ids \cap HistoryIds(a.day)
    ELSE {}

(***************************************************************************)
(* The workflow gate: check_stats.py, main.                                *)
(***************************************************************************)
\* main going on to the deduplication after no_data too
MergeProceeds_AlsoNoData(ms) == ms \in {"merge_success", "no_data"}

\* line 208: main goes on to the deduplication
MergeProceeds(ms) == ms = "merge_success"

\* lines 210-219: the exit code main ends with when it does not go on
MergeExitCode(ms) ==
    IF ms = "no_data" THEN 1
    ELSE IF ms = "error" THEN 2
    ELSE 2

\* the branches of no_new_content and has_new_content exchanged
DedupExitCode_Swapped(ds) ==
    IF ds = "has_new_content" THEN 1
    ELSE IF ds = "no_new_content" THEN 0
    ELSE IF ds = "no_data" THEN 1
    ELSE IF ds = "error" THEN 2
    ELSE 2

\* lines 225-240: the exit code main ends with after the deduplication
DedupExitCode(ds) ==
    IF ds = "has_new_content" THEN 0
    ELSE IF ds = "no_new_content" THEN 1
    ELSE IF ds = "no_data" THEN 1
    ELSE IF ds = "error" THEN 2
    ELSE 2

\* the record the call history keeps of one call
Call(op, by, o) ==
    [op |-> op, by |-> by, status |-> o.status, pre |-> files,
     post |-> o.files,
     dups |-> IF op = "perform_deduplication" THEN DuplicateIds(arg) ELSE {}]

\* a caller other than main (a test, a script) calls perform_merge
DirectMerge ==
    /\ pc = "idle"
    /\ Len(calls) < MaxDirectCalls
    /\ \E o \in perform_merge(arg) :
          /\ files' = o.files
          /\ calls' = Append(calls, Call("perform_merge", "direct", o))
    /\ UNCHANGED <<env, arg, pc, merge_status, dedup_status, exitCode,
                   exitVia, crawl>>

\* a caller other than main calls perform_deduplication
DirectDedup ==
    /\ pc = "idle"
    /\ Len(calls) < MaxDirectCalls
    /\ \E o \in perform_deduplication(arg) :
          /\ files' = o.files
          /\ calls' = Append(calls, Call("perform_deduplication", "direct", o))
    /\ UNCHANGED <<env, arg, pc, merge_status, dedup_status, exitCode,
                   exitVia, crawl>>

\* main, lines 202-206: merge_status = perform_merge(date); an exception
\* that leaves perform_merge leaves main too and ends the process with the
\* interpreter's status 1
MainMerge ==
    /\ pc = "idle"
    /\ \E o \in perform_merge(arg) :
          /\ files' = o.files
          /\ calls' = Append(calls, Call("perform_merge", "main", o))
          /\ IF o.status = Raised
             THEN /\ pc' = "exited"
                  /\ exitVia' = "exception"
                  /\ exitCode' = 1
                  /\ UNCHANGED merge_status
             ELSE /\ pc' = "merged"
                  /\ merge_status' = o.status
                  /\ UNCHANGED <<exitVia, exitCode>>
    /\ UNCHANGED <<env, arg, dedup_status, crawl>>

\* main, lines 208-219
MainGateMerge ==
    /\ pc = "merged"
    /\ IF MergeProceeds(merge_status)
       THEN /\ pc' = "dedup"
            /\ UNCHANGED <<exitVia, exitCode>>
       ELSE /\ pc' = "exited"
            /\ exitVia' = "sys.exit"
            /\ exitCode' = MergeExitCode(merge_status)
    /\ UNCHANGED <<files, env, arg, merge_status, dedup_status, calls, crawl>>

\* main, line 223: dedup_status = perform_deduplication(date)
MainDedup ==
    /\ pc = "dedup"
    /\ \E o \in perform_deduplication(arg) :
          /\ files' = o.files
          /\ calls' = Append(calls, Call("perform_deduplication", "main", o))
          /\ IF o.status = Raised
             THEN /\ pc' = "exited"
                  /\ exitVia' = "exception"
                  /\ exitCode' = 1
                  /\ UNCHANGED dedup_status
             ELSE /\ pc' = "deduped"
                  /\ dedup_status' = o.status
                  /\ UNCHANGED <<exitVia, exitCode>>
    /\ UNCHANGED <<env, arg, merge_status, crawl>>

\* main, lines 225-240
MainGateDedup ==
    /\ pc = "deduped"
    /\ pc' = "exited"
    /\ exitVia' = "sys.exit"
    /\ exitCode' = DedupExitCode(dedup_status)
    /\ UNCHANGED <<files, env, arg, merge_status, dedup_status, calls, crawl>>

\* the crawl does not run in Spec
CrawlIdle == [on |-> FALSE]

ValidArgs == {[valid |-> TRUE, day |-> d] : d \in RunDays}
\* a --date string that datetime.strptime(date_str, "%Y-%m-%d") rejects
InvalidArg == [valid |-> FALSE, day |-> LastDay]

\* every store of the day
TodayFiles ==
    {AbsentFile}
       \cup {FileOf(Numbered(ls)) : ls \in SeqsUpTo(Lines, MaxLines)}
\* the stores of the day whose records carry the one category IS
PlainTodayFiles ==
    {AbsentFile}
       \cup {FileOf(Numbered(ls)) : ls \in SeqsUpTo(PlainLines, MaxLines)}

FilesOf(a, t, h0, h1) ==
    [d \in Days |-> IF d = a.day THEN t
                    ELSE IF d = 0 THEN h0
                    ELSE IF d = 1 THEN h1
                    ELSE AbsentFile]

\* Every store of the day without a history; every plain store of the day
\* with every history; every failing file system with a history store at
\* the far end of the window; an invalid date.
Init ==
    /\ \/ /\ arg = [valid |-> TRUE, day |-> LastDay]
          /\ env = "ok"
          /\ \E t \in TodayFiles :
                files = FilesOf(arg, t, AbsentFile, AbsentFile)
       \/ /\ arg \in ValidArgs
          /\ env = "ok"
          /\ \E t \in PlainTodayFiles, h0 \in HistoryFiles0,
                h1 \in HistoryFiles1 :
                files = FilesOf(arg, t, h0, h1)
       \/ /\ arg = [valid |-> TRUE, day |-> LastDay]
          /\ env \in Envs \ {"ok"}
          /\ \E t \in PlainTodayFiles, h1 \in HistoryFiles1 :
                files = FilesOf(arg, t, AbsentFile, h1)
       \/ /\ arg = InvalidArg
          /\ env = "ok"
          /\ \E t \in PlainTodayFiles :
                files = FilesOf(arg, t, AbsentFile, AbsentFile)
    /\ pc = "idle"
    /\ merge_status = ""
    /\ dedup_status = ""
    /\ exitCode = -1
    /\ exitVia = "running"
    /\ calls = <<>>
    /\ crawl = CrawlIdle

Next ==
    \/ DirectMerge
    \/ DirectDedup
    \/ MainMerge
    \/ MainGateMerge
    \/ MainDedup
    \/ MainGateDedup

Spec == Init /\ [][Next]_vars

(***************************************************************************)
(* The gate run day after day: main is started once for each date of a     *)
(* run of consecutive dates, in increasing order, on the store the crawl   *)
(* of that date left (main.py writes ../data/<date>.jsonl), and the next   *)
(* date follows when the run ended with exit code 0 or 1.                  *)
(***************************************************************************)
\* the stores a day's crawl may leave
DailyStores ==
    {AbsentFile,
     FileOf(Numbered(<<MkRec("A", <<"IS">>, 0)>>)),
     FileOf(Numbered(<<MkRec("A", <<"IS">>, 0), MkRec("A", <<"MKT">>, 0)>>)),
     FileOf(Numbered(<<MkRec("A", <<"IS">>, 0), MkRec("B", <<"MKT">>, 0)>>)),
     FileOf(Numbered(<<MkRec("A", <<"IS">>, 0), BadLine>>)),
     FileOf(Numbered(<<NoIdLine>>))}

\* the crawl of the next date leaves its store and main is started on it
NextDate ==
    /\ pc = "exited"
    /\ exitVia = "sys.exit"
    /\ exitCode \in {0, 1}
    /\ arg.day < LastDay
    /\ arg' = [valid |-> TRUE, day |-> arg.day + 1]
    /\ \E t \in DailyStores :
          /\ t.exists => Cardinality({d \in Days : files[d].exists}) < MaxStoreDays
          /\ files' = [files EXCEPT ![arg.day + 1] = t]
    /\ pc' = "idle"
    /\ merge_status' = ""
    /\ dedup_status' = ""
    /\ exitCode' = -1
    /\ exitVia' = "running"
    /\ calls' = <<>>
    /\ UNCHANGED <<env, crawl>>

\* main is started on the store of the first date
InitDaily ==
    /\ arg = [valid |-> TRUE, day |-> 0]
    /\ env \in Envs
    /\ \E t \in DailyStores :
          files = [d \in Days |-> IF d = 0 THEN t ELSE AbsentFile]
    /\ pc = "idle"
    /\ merge_status = ""
    /\ dedup_status = ""
    /\ exitCode = -1
    /\ exitVia = "running"
    /\ calls = <<>>
    /\ crawl = CrawlIdle

NextDaily ==
    \/ NextDate
    \/ MainMerge
    \/ MainGateMerge
    \/ MainDedup
    \/ MainGateDedup

SpecDaily == InitDaily /\ [][NextDaily]_vars

(***************************************************************************)
(* The paginated crawl traversal: ssrn.py, SsrnSpider.                     *)
(*                                                                         *)
(* The engine (Scrapy) is outside the repository: it delivers the response *)
(* of every listing request to parse, one callback at a time and in any    *)
(* order, and delivers the response of a detail request to parse_detail    *)
(* when the fetch succeeds; a failed detail fetch reaches no callback.     *)
(* The spider builds every scrapy.Request without dont_filter, so the      *)
(* engine's scheduler hands each request to its duplicate filter: with the *)
(* filter Scrapy installs by default a request whose URL was requested     *)
(* before is dropped; the project's settings (not part of the spider) may  *)
(* install a filter that drops nothing.  The model runs under both.        *)
(***************************************************************************)
\* approved_date strings of the remote listing ("DD Mon YYYY"), "" for an
\* entry without one
DateStrings == {"01 Jul 2025", "02 Jul 2025", "03 Jul 2025"}

\* datetime.datetime.strptime(s, "%d %b %Y"), as the day of July 2025
strptime(s) ==
    CASE s = "01 Jul 2025" -> 1
      [] s = "02 Jul 2025" -> 2
      [] s = "03 Jul 2025" -> 3

\* date.strftime("%d %b %Y")
strftime(d) ==
    CASE d = 1 -> "01 Jul 2025"
      [] d = 2 -> "02 Jul 2025"
      [] d = 3 -> "03 Jul 2025"

\* the DATE argument of the spider, 2025-07-02, as self.date
TargetDates == {2}

\* a listing entry: its id, its approved_date string and whether the
\* detail endpoint answers for it
EntryKinds ==
    {[approved_date |-> s, detailOk |-> TRUE] : s \in DateStrings \cup {""}}
       \cup {[approved_date |-> "02 Jul 2025", detailOk |-> FALSE]}

MkEntry(k, i) ==
    [id |-> i, approved_date |-> k.approved_date, detailOk |-> k.detailOk]

\* the listings of a category: the entry at position i has id i
Listings ==
    {[i \in DOMAIN ks |-> MkEntry(ks[i], i)] : ks \in SeqsUpTo(EntryKinds, MaxListing)}

\* the listings of the second category
OtherListings ==
    {<<>>,
     <<MkEntry([approved_date |-> "03 Jul 2025", detailOk |-> TRUE], 1),
       MkEntry([approved_date |-> "02 Jul 2025", detailOk |-> TRUE], 2),
       MkEntry([approved_date |-> "01 Jul 2025", detailOk |-> TRUE], 3)>>,
     <<MkEntry([approved_date |-> "02 Jul 2025", detailOk |-> TRUE], 1)>>}

NoPaper == [id |-> 0, approved_date |-> "", detailOk |-> FALSE]

PageRequest(cat, index) ==
    [kind |-> "page", category |-> cat, index |-> index, paper |-> NoPaper]
DetailRequest(cat, index, paper) ==
    [kind |-> "detail", category |-> cat, index |-> index, paper |-> paper]

\* the URL of a request (build_url, line 42; detail_url, line 76): a
\* listing URL names the category and the index, a detail URL the paper id
Url(req) ==
    IF req.kind = "page"
    THEN [kind |-> "page", category |-> req.category, index |-> req.index,
          id |-> 0]
    ELSE [kind |-> "detail", category |-> "", index |-> 0,
          id |-> req.paper.id]

\* the requests of reqs that the scheduler queues: with the duplicate
\* filter on, those whose URL was not requested before
Scheduled(c, reqs) ==
    IF c.dupefilter THEN {q \in reqs : Url(q) \notin c.seen} ELSE reqs

SetMin(S) == CHOOSE x \in S : \A y \in S : x <= y
SetMax(S) == CHOOSE x \in S : \A y \in S : x >= y

\* the entries the remote source serves for index=<index>&count=<PageSize>
Page(listing, index) ==
    SubSeq(listing, index + 1,
           IF index + PageSize < Len(listing) THEN index + PageSize
           ELSE Len(listing))

\* lines 45-49: xmltodict.parse gives a list for an element that repeats;
\* a page of one entry gives that entry's dict and a page of none gives no
\* list at all; the loop of line 53 then raises (or min does, line 58)
PapersIsList(papers) == Len(papers) >= 2

\* parse with the guard "if not approved_dates or min(approved_dates) >
\* self.date": a page without dates counts as too new and the next page is
\* requested
parse_AdvancesWithoutDates(c, cat, index) ==
    LET papers == Page(c.listing[cat], index)
        dated == SelectSeq(papers, LAMBDA q : q.approved_date # "")
        approved_dates == {strptime(dated[k].approved_date) : k \in DOMAIN dated}
        next == PageRequest(cat, index + PageSize)
    IN  IF approved_dates = {}
        THEN [raised |-> FALSE, requests |-> {next}]
        ELSE IF ~PapersIsList(papers)
        THEN [raised |-> TRUE, requests |-> {}]
        ELSE IF SetMin(approved_dates) > c.date
        THEN [raised |-> FALSE, requests |-> {next}]
        ELSE IF SetMax(approved_dates) < c.date
        THEN [raised |-> FALSE, requests |-> {}]
        ELSE [raised |-> FALSE,
              requests |->
                 {DetailRequest(cat, index, papers[k]) :
                    k \in {j \in DOMAIN papers :
                             papers[j].approved_date = strftime(c.date)}}
                 \cup {next}]

\* parse(response), lines 44-86: [raised, requests]
parse(c, cat, index) ==
    LET papers == Page(c.listing[cat], index)
        dated == SelectSeq(papers, LAMBDA q : q.approved_date # "")
        approved_dates == {strptime(dated[k].approved_date) : k \in DOMAIN dated}
        next == PageRequest(cat, index + PageSize)
    IN  IF ~PapersIsList(papers) \/ approved_dates = {}
        THEN [raised |-> TRUE, requests |-> {}]
        ELSE IF SetMin(approved_dates) > c.date
        THEN [raised |-> FALSE, requests |-> {next}]
        ELSE IF SetMax(approved_dates) < c.date
        THEN [raised |-> FALSE, requests |-> {}]
        ELSE [raised |-> FALSE,
              requests |->
                 {DetailRequest(cat, index, papers[k]) :
                    k \in {j \in DOMAIN papers :
                             papers[j].approved_date = strftime(c.date)}}
                 \cup {next}]

\* parse_detail(response), lines 88-93: the record it yields
parse_detail(req) ==
    [id |-> req.paper.id, category |-> <<req.category>>,
     approved_date |-> req.paper.approved_date, detail |-> "PaperJson"]

\* start_requests, lines 32-38
StartRequests ==
    /\ crawl.on /\ ~crawl.started
    /\ crawl' = [crawl EXCEPT
                   !.started = TRUE,
                   !.pending = {PageRequest(cat, 0) : cat \in crawl.categories},
                   !.seen = {Url(PageRequest(cat, 0)) :
                               cat \in crawl.categories}]
    /\ UNCHANGED gateVars

\* the engine delivers a listing response to parse
Parse ==
    /\ crawl.on
    /\ \E req \in crawl.pending :
          /\ req.kind = "page"
          /\ LET r == parse(crawl, req.category, req.index)
             IN  crawl' = [crawl EXCEPT
                     !.pending = (@ \ {req}) \cup Scheduled(crawl, r.requests),
                     !.seen = @ \cup {Url(q) : q \in r.requests},
                     !.dropped = @ \cup (r.requests
                                           \ Scheduled(crawl, r.requests)),
                     !.raised = IF r.raised THEN @ \cup {req} ELSE @,
                     !.handled = @ \cup {req}]
    /\ UNCHANGED gateVars

\* the engine delivers a detail response to parse_detail
ParseDetail ==
    /\ crawl.on
    /\ \E req \in crawl.pending :
          /\ req.kind = "detail"
          /\ req.paper.detailOk
          /\ crawl' = [crawl EXCEPT
                         !.pending = @ \ {req},
                         !.emitted = @ \cup {parse_detail(req)}]
    /\ UNCHANGED gateVars

\* a failed detail fetch that ends the traversal of the entry's category:
\* every request of the category still queued is dropped with it
DetailFetchFails_AbortsCategory ==
    /\ crawl.on
    /\ \E req \in crawl.pending :
          /\ req.kind = "detail"
          /\ ~req.paper.detailOk
          /\ crawl' = [crawl EXCEPT
                         !.pending = {q \in @ : q.category # req.category},
                         !.failed = @ \cup {req}]
    /\ UNCHANGED gateVars

\* a detail fetch fails: the request has no errback (lines 77-81), the
\* engine logs the failure and no callback runs
DetailFetchFails ==
    /\ crawl.on
    /\ \E req \in crawl.pending :
          /\ req.kind = "detail"
          /\ ~req.paper.detailOk
          /\ crawl' = [crawl EXCEPT !.pending = @ \ {req},
                                    !.failed = @ \cup {req}]
    /\ UNCHANGED gateVars

\* the spider after __init__, lines 11-30, on every listing of the first
\* category
InitCrawl ==
    /\ \E l \in Listings, o \in OtherListings, d \in TargetDates,
          f \in BOOLEAN :
          crawl = [on |-> TRUE, started |-> FALSE, date |-> d,
                   dupefilter |-> f, seen |-> {}, dropped |-> {},
                   failed |-> {},
                   categories |-> Cats,
                   listing |-> [cat \in Cats |-> IF cat = "IS" THEN l ELSE o],
                   pending |-> {}, emitted |-> {}, raised |-> {},
                   handled |-> {}]
    /\ arg = InvalidArg
    /\ env = "ok"
    /\ files = [d \in Days |-> AbsentFile]
    /\ pc = "exited"
    /\ merge_status = ""
    /\ dedup_status = ""
    /\ exitCode = -1
    /\ exitVia = "running"
    /\ calls = <<>>

NextCrawl ==
    \/ StartRequests
    \/ Parse
    \/ ParseDetail
    \/ DetailFetchFails

SpecCrawl == InitCrawl /\ [][NextCrawl]_vars

\* the engine does not leave a queued listing response undelivered for ever
SpecCrawlFair == SpecCrawl /\ WF_vars(Parse)

(***************************************************************************)
(* What the properties below read from a store and from the call history.  *)
(***************************************************************************)
\* the records a store file holds: its lines that are JSON objects
Records(file) == SelectSeq(file.lines, LAMBDA l : l.kind = "rec")

\* the ids of the records a store file holds (empty for an absent file)
StoreIds(file) == {GetId(Records(file)[k]) : k \in DOMAIN Records(file)}

\* the ids held by the stores of the history_days days before day, in fs
WindowIds(fs, day) ==
    UNION {StoreIds(fs[d]) : d \in {e \in Days : e < day /\ e >= day - history_days}}

\* the union of the category values of the records of recs with id i
CategoryUnion(recs, i) ==
    UNION {ToSet(recs[k].category) : k \in {j \in DOMAIN recs : recs[j].id = i}}

\* a record without the order of its category list
Unordered(r) == [id |-> r.id, detail |-> r.detail, hasCat |-> r.hasCat,
                 category |-> ToSet(r.category)]

IsMerge(c) == c.op = "perform_merge"
IsDedup(c) == c.op = "perform_deduplication"

(***************************************************************************)
(* C1.  After perform_merge returns merge_success the store holds exactly  *)
(* one record per distinct id of the input, and that record's category,    *)
(* as a set, is the union of the category values of all input records with *)
(* that id, with no value repeated.                                        *)
(***************************************************************************)
C1_MergeOneRecordPerId ==
    \A n \in DOMAIN calls :
       IsMerge(calls[n]) /\ calls[n].status = "merge_success" =>
          LET inp == Records(calls[n].pre[arg.day])
              out == calls[n].post[arg.day]
          IN  /\ out.exists
              /\ \A k \in DOMAIN out.lines : out.lines[k].kind = "rec"
              /\ {out.lines[k].id : k \in DOMAIN out.lines}
                    = {inp[k].id : k \in DOMAIN inp}
              /\ \A k, l \in DOMAIN out.lines :
                    k # l => out.lines[k].id # out.lines[l].id
              /\ \A k \in DOMAIN out.lines :
                    /\ ToSet(out.lines[k].category)
                          = CategoryUnion(inp, out.lines[k].id)
                    /\ Len(out.lines[k].category)
                          = Cardinality(ToSet(out.lines[k].category))

\* a merge that collapsed two records of one id into one record that
\* carries both categories
C1_Witness ==
    \E n \in DOMAIN calls :
       /\ IsMerge(calls[n]) /\ calls[n].status = "merge_success"
       /\ Len(Records(calls[n].pre[arg.day])) = 2
       /\ Len(calls[n].post[arg.day].lines) = 1
       /\ ToSet(calls[n].post[arg.day].lines[1].category) = Cats

(***************************************************************************)
(* C2.  After perform_deduplication(D) returns, the set of ids in D's      *)
(* store (empty when the file does not exist) has an empty intersection    *)
(* with the union of the id sets of the stores for D-1 through D-7, for    *)
(* every content of the stores.                                            *)
(***************************************************************************)
C2_DedupDisjointFromWindow ==
    \A n \in DOMAIN calls :
       IsDedup(calls[n]) /\ calls[n].status \in Statuses =>
          StoreIds(calls[n].post[arg.day])
             \cap WindowIds(calls[n].post, arg.day) = {}

(***************************************************************************)
(* C3.  After perform_deduplication(D) has removed duplicates: if no       *)
(* record of D's store survives, D's store file no longer exists;          *)
(* otherwise the file exists and contains exactly the records of the       *)
(* original store whose id is not in the 7-day history id set.             *)
(***************************************************************************)
C3_DedupFileIsSurvivors ==
    \A n \in DOMAIN calls :
       LET c == calls[n]
           hist == WindowIds(c.pre, arg.day)
           survivors == SelectSeq(Records(c.pre[arg.day]),
                                  LAMBDA r : GetId(r) \notin hist)
       IN  /\ IsDedup(c)
           /\ c.status \in {"has_new_content", "no_new_content"}
           /\ c.dups # {}
           => IF survivors = <<>>
              THEN ~c.post[arg.day].exists
              ELSE c.post[arg.day] = FileOf(survivors)

(***************************************************************************)
(* C4.  perform_deduplication(D) and perform_merge(D) leave the store      *)
(* files of every date other than D unchanged, in existence and in         *)
(* content, whatever status is returned.                                   *)
(***************************************************************************)
C4_OtherDaysUnchanged ==
    \A n \in DOMAIN calls :
       \A d \in Days :
          (~arg.valid \/ d # arg.day) => calls[n].post[d] = calls[n].pre[d]

\* a deduplication that rewrote or deleted D's store while a store of the
\* window exists
C4_Witness ==
    \E n \in DOMAIN calls :
       /\ IsDedup(calls[n])
       /\ calls[n].post[arg.day] # calls[n].pre[arg.day]
       /\ \E d \in Days : d # arg.day /\ calls[n].pre[d].exists

(***************************************************************************)
(* C5.  The exit code of the workflow gate is a function of the pair       *)
(* (merge status, dedup status) only: merge no_data -> 1; merge error or   *)
(* any unrecognized merge status -> 2; merge merge_success with dedup      *)
(* has_new_content -> 0, dedup no_new_content or no_data -> 1, dedup error *)
(* or any unrecognized dedup status -> 2.                                  *)
(***************************************************************************)
\* the statuses main may be handed, recognized or not
AnyStatus == Statuses \cup {"", "unknown"}

\* the table of the claim
C5_Table(ms, ds) ==
    CASE ms = "no_data" -> 1
      [] ms = "merge_success" /\ ds = "has_new_content" -> 0
      [] ms = "merge_success" /\ ds \in {"no_new_content", "no_data"} -> 1
      [] OTHER -> 2

C5_ExitCodeIsTable ==
    /\ \A ms \in AnyStatus, ds \in AnyStatus :
          (IF MergeProceeds(ms) THEN DedupExitCode(ds) ELSE MergeExitCode(ms))
             = C5_Table(ms, ds)
    /\ pc = "exited" /\ exitVia = "sys.exit"
          => exitCode = C5_Table(merge_status, dedup_status)

\* the gate has ended with each of its three codes in turn; here with 0
C5_Witness ==
    /\ pc = "exited" /\ exitVia = "sys.exit" /\ exitCode = 0
    /\ merge_status = "merge_success" /\ dedup_status = "has_new_content"

(***************************************************************************)
(* C6.  In every run of the gate perform_deduplication is invoked at most  *)
(* once, only after perform_merge has returned merge_success, and never    *)
(* before perform_merge; when no store file exists for the date, merge     *)
(* returns no_data and the run ends with exit code 1 without dedup being   *)
(* invoked.                                                                *)
(***************************************************************************)
MainCalls == SelectSeq(calls, LAMBDA c : c.by = "main")

C6_DedupOnlyAfterMergeSuccess ==
    /\ Cardinality({n \in DOMAIN MainCalls : IsDedup(MainCalls[n])}) <= 1
    /\ \A n \in DOMAIN MainCalls :
          IsDedup(MainCalls[n]) =>
             \E m \in 1 .. n - 1 :
                IsMerge(MainCalls[m]) /\ MainCalls[m].status = "merge_success"
    /\ \A n \in DOMAIN MainCalls :
          /\ IsMerge(MainCalls[n])
          /\ arg.valid
          /\ ~MainCalls[n].pre[arg.day].exists
          => /\ MainCalls[n].status = "no_data"
             /\ \A m \in DOMAIN MainCalls : ~IsDedup(MainCalls[m])
             /\ pc \in {"merged", "exited"}
             /\ pc = "exited" => exitVia = "sys.exit" /\ exitCode = 1

\* a run on a date without a store file that has ended
C6_Witness ==
    /\ pc = "exited"
    /\ arg.valid
    /\ \E n \in DOMAIN MainCalls :
          IsMerge(MainCalls[n]) /\ ~MainCalls[n].pre[arg.day].exists

(***************************************************************************)
(* C7.  Every run of the command-line entry point ends through exactly one *)
(* of the gate's exit signals 0, 1 or 2, for every date argument           *)
(* (including a string that is not a valid YYYY-MM-DD date) and every      *)
(* store state; no run ends by an exception escaping main.                 *)
(***************************************************************************)
C7_EndsBySysExit ==
    pc = "exited" => exitVia = "sys.exit" /\ exitCode \in {0, 1, 2}

(***************************************************************************)
(* C8.  Merge is idempotent: for every store on which perform_merge        *)
(* returned merge_success, a second perform_merge on the resulting store   *)
(* returns merge_success and leaves the same set of records, each with the *)
(* same id, the same non-category fields and the same category set.        *)
(***************************************************************************)
C8_MergeIdempotent ==
    \A n \in DOMAIN calls :
       /\ n + 1 \in DOMAIN calls
       /\ IsMerge(calls[n]) /\ calls[n].status = "merge_success"
       /\ IsMerge(calls[n + 1])
       => /\ calls[n + 1].status = "merge_success"
          /\ calls[n + 1].post[arg.day].exists
          /\ Len(calls[n + 1].post[arg.day].lines)
                = Len(calls[n].post[arg.day].lines)
          /\ {Unordered(calls[n + 1].post[arg.day].lines[k]) :
                 k \in DOMAIN calls[n + 1].post[arg.day].lines}
                = {Unordered(calls[n].post[arg.day].lines[k]) :
                     k \in DOMAIN calls[n].post[arg.day].lines}

\* a second merge of a store that the first merge changed into two records
C8_Witness ==
    \E n \in DOMAIN calls :
       /\ n + 1 \in DOMAIN calls
       /\ IsMerge(calls[n]) /\ calls[n].status = "merge_success"
       /\ IsMerge(calls[n + 1])
       /\ calls[n].post[arg.day] # calls[n].pre[arg.day]
       /\ Len(calls[n + 1].post[arg.day].lines) = 2

(***************************************************************************)
(* C10.  perform_merge returns the status error (and the gate therefore    *)
(* exits with code 2) whenever reading the daily store fails, including    *)
(* when the store file exists but contains a line that is not valid JSON   *)
(* or cannot be read.                                                      *)
(***************************************************************************)
\* reading D's store fails in file system fs
ReadFails(fs) ==
    /\ fs[arg.day].exists
    /\ \/ Unreadable(arg.day)
       \/ \E k \in DOMAIN fs[arg.day].lines : fs[arg.day].lines[k].kind = "bad"

C10_ReadFailureIsError ==
    \A n \in DOMAIN calls :
       IsMerge(calls[n]) /\ arg.valid /\ ReadFails(calls[n].pre) =>
          /\ calls[n].status = "error"
          /\ calls[n].by = "main" /\ pc = "exited" => exitCode = 2

(***************************************************************************)
(* C9.  For each configured category whose listing is sorted newest-first, *)
(* the crawl traversal emits a record for exactly those listing entries    *)
(* whose approved date equals the target date and whose detail fetch       *)
(* succeeds: no entry with a different approved date is ever emitted, and  *)
(* no entry dated on the target date is missed, on whichever page it lies. *)
(***************************************************************************)
\* every entry has an approved date and no entry is newer than one before it
SortedNewestFirst(listing) ==
    /\ \A k \in DOMAIN listing : listing[k].approved_date # ""
    /\ \A k, l \in DOMAIN listing :
          k < l => strptime(listing[k].approved_date)
                      >= strptime(listing[l].approved_date)

\* the traversal has come to rest: no request is in flight
CrawlAtRest == crawl.on /\ crawl.started /\ crawl.pending = {}

\* the records of category cat the traversal is to emit
DueRecords(cat) ==
    {[id |-> e.id, category |-> <<cat>>, approved_date |-> e.approved_date,
      detail |-> "PaperJson"] :
       e \in {crawl.listing[cat][k] :
                k \in {j \in DOMAIN crawl.listing[cat] :
                         /\ crawl.listing[cat][j].approved_date
                               = strftime(crawl.date)
                         /\ crawl.listing[cat][j].detailOk}}}

EmittedOf(cat) == {r \in crawl.emitted : r.category = <<cat>>}

C9_EmitsExactlyTargetEntries ==
    crawl.on =>
       \A cat \in crawl.categories :
          SortedNewestFirst(crawl.listing[cat]) =>
             /\ EmittedOf(cat) \subseteq DueRecords(cat)
             /\ CrawlAtRest => EmittedOf(cat) = DueRecords(cat)

\* no entry of cat dated on the target date is listed under another
\* category too
Unshared(cat) ==
    \A other \in crawl.categories \ {cat} :
       \A k \in DOMAIN crawl.listing[cat], l \in DOMAIN crawl.listing[other] :
          crawl.listing[cat][k].approved_date = strftime(crawl.date)
             => crawl.listing[other][l].id # crawl.listing[cat][k].id

\* the same on the listings whose pages all hold two entries or more, where
\* the parsed page is a list, and whose entries of the target date no
\* other category lists (or with a duplicate filter that drops nothing)
C9_OnPagesOfSeveralEntries ==
    crawl.on =>
       \A cat \in crawl.categories :
          /\ SortedNewestFirst(crawl.listing[cat])
          /\ Len(crawl.listing[cat]) % PageSize # 1
          /\ ~crawl.dupefilter \/ Unshared(cat)
          => /\ EmittedOf(cat) \subseteq DueRecords(cat)
             /\ CrawlAtRest => EmittedOf(cat) = DueRecords(cat)

(***************************************************************************)
(* C11.  In perform_deduplication, any failure of a file operation on a    *)
(* store (reading D's store, reading a history store that exists,          *)
(* rewriting D's store, deleting D's store) yields the status error; no    *)
(* such failure is reported as has_new_content, no_new_content or no_data. *)
(***************************************************************************)
\* reading the store of day d fails in file system fs: the file is there
\* and open raises or json.loads rejects one of its lines
ReadFailsAt(fs, d) ==
    /\ d \in Days
    /\ fs[d].exists
    /\ \/ Unreadable(d)
       \/ \E k \in DOMAIN fs[d].lines : fs[d].lines[k].kind = "bad"

\* the records of D's store that the call c is to keep
Survivors(c) ==
    SelectSeq(Records(c.pre[arg.day]), LAMBDA r : GetId(r) \notin c.dups)

\* a file operation of the deduplication call c failed: the read of D's
\* store; or, D's store read and not empty, the read of a store of the
\* window; or the rewrite of D's store; or its deletion
DedupFileOpFailed(c) ==
    /\ arg.valid
    /\ c.pre[arg.day].exists
    /\ \/ ReadFailsAt(c.pre, arg.day)
       \/ /\ ~ReadFailsAt(c.pre, arg.day)
          /\ Records(c.pre[arg.day]) # <<>>
          /\ \/ \E i \in 1 .. history_days : ReadFailsAt(c.pre, arg.day - i)
             \/ /\ c.dups # {}
                /\ Survivors(c) # <<>>
                /\ \/ Unwritable(arg.day)
                   \/ env = "disk_full"
             \/ /\ c.dups # {}
                /\ Survivors(c) = <<>>
                /\ env = "dir_readonly"

C11_DedupFileFailureIsError ==
    \A n \in DOMAIN calls :
       IsDedup(calls[n]) /\ DedupFileOpFailed(calls[n]) =>
          calls[n].status = "error"

(***************************************************************************)
(* C12.  When a listing page yields no entry with a parseable approved     *)
(* date (an empty page, e.g. the page past the end of the listing), the    *)
(* traversal treats it as end-of-category: it stops paging for that        *)
(* category without raising an error, and other categories are unaffected. *)
(***************************************************************************)
\* the listing page that the page request req asks for
PageOf(req) == Page(crawl.listing[req.category], req.index)

\* the page of req has no entry with an approved date
NoDatedEntry(req) ==
    \A k \in DOMAIN PageOf(req) : PageOf(req)[k].approved_date = ""

NextPage(req) == PageRequest(req.category, req.index + PageSize)

C12_EmptyPageEndsCategory ==
    crawl.on =>
       \A req \in crawl.handled :
          NoDatedEntry(req) =>
             /\ req \notin crawl.raised
             /\ NextPage(req) \notin crawl.pending \cup crawl.handled

(***************************************************************************)
(* C13.  A failed detail fetch for one listing entry only causes that      *)
(* entry to be skipped: every other target-date entry of the same page is  *)
(* still emitted once its own detail fetch succeeds, and the request for   *)
(* the next page (offset+50) of that category is still issued.             *)
(***************************************************************************)
\* the entries of the page of the failed request f, other than f's own,
\* that are dated on the target date
OtherTargetEntries(f) ==
    LET page == Page(crawl.listing[f.category], f.index)
    IN  {page[k] : k \in {j \in DOMAIN page :
                            /\ page[j] # f.paper
                            /\ page[j].approved_date = strftime(crawl.date)}}

\* the entry e of f's page is emitted once its own detail fetch has
\* succeeded: its request is still to be fetched, or the scheduler never
\* queued it, or its fetch failed too, or its record is emitted
EmittedOnceFetched(f, e) ==
    LET req == DetailRequest(f.category, f.index, e)
    IN  \/ req \in crawl.pending \cup crawl.dropped \cup crawl.failed
        \/ parse_detail(req) \in crawl.emitted

C13_DetailFailureSkipsOneEntry ==
    crawl.on =>
       \A f \in crawl.failed :
          /\ parse_detail(f) \notin crawl.emitted
          /\ \A e \in OtherTargetEntries(f) : EmittedOnceFetched(f, e)
          /\ NextPage(f) \in crawl.pending \cup crawl.handled

\* a detail fetch failed, another entry of the same page is emitted and the
\* next page of the category has been handled
C13_Witness ==
    /\ crawl.on
    /\ \E f \in crawl.failed :
          /\ \E e \in OtherTargetEntries(f) :
                parse_detail(DetailRequest(f.category, f.index, e))
                   \in crawl.emitted
          /\ NextPage(f) \in crawl.handled

(***************************************************************************)
(* C14.  The set of records emitted by the crawl is the same under every   *)
(* interleaving and ordering of the response callbacks (listing pages of   *)
(* different categories, and detail responses of different entries): no    *)
(* callback reads or writes state written by a callback of another         *)
(* category or another entry, and each emitted record carries as category  *)
(* the single category of the page it was found on.                        *)
(***************************************************************************)
RECURSIVE Traverse(_, _)
\* the records of category cat that its pages from index on give when the
\* category is walked alone, page after page
Traverse(cat, index) ==
    LET r == parse(crawl, cat, index)
        here == {parse_detail(q) :
                   q \in {d \in r.requests :
                            d.kind = "detail" /\ d.paper.detailOk}}
    IN  IF PageRequest(cat, index + PageSize) \in r.requests
        THEN here \cup Traverse(cat, index + PageSize)
        ELSE here

\* the one set of records that every order of the callbacks is to give
OrderFreeResult == UNION {Traverse(cat, 0) : cat \in crawl.categories}

\* the record r was found on a handled page of the category it carries
FoundOnPageOfItsCategory(r) ==
    \E req \in crawl.handled :
       /\ r.category = <<req.category>>
       /\ \E k \in DOMAIN PageOf(req) : PageOf(req)[k].id = r.id

C14_EmittedSetIsOrderFree ==
    crawl.on =>
       /\ \A r \in crawl.emitted : FoundOnPageOfItsCategory(r)
       /\ CrawlAtRest => crawl.emitted = OrderFreeResult

(***************************************************************************)
(* C15.  For a page with at least one parseable approved date at offset k  *)
(* of a category, the traversal takes exactly one of three transitions: if *)
(* the minimum approved date on the page is later than the target date it  *)
(* requests offset k+50 and emits nothing; else if the maximum approved    *)
(* date is earlier than the target date it requests nothing further for    *)
(* that category and emits nothing; else it requests a detail for each     *)
(* entry whose approved date equals the target date and also requests      *)
(* offset k+50.                                                            *)
(***************************************************************************)
\* the approved dates of the page of req
PageDates(req) ==
    {strptime(PageOf(req)[k].approved_date) :
       k \in {j \in DOMAIN PageOf(req) : PageOf(req)[j].approved_date # ""}}

\* the detail requests for the entries of the page of req dated on the
\* target date
TargetDetails(req) ==
    {DetailRequest(req.category, req.index, PageOf(req)[k]) :
       k \in {j \in DOMAIN PageOf(req) :
                PageOf(req)[j].approved_date = strftime(crawl.date)}}

\* the requests the three transitions name for the page of req
C15_Transition(req) ==
    IF \A d \in PageDates(req) : d > crawl.date THEN {NextPage(req)}
    ELSE IF \A d \in PageDates(req) : d < crawl.date THEN {}
    ELSE TargetDetails(req) \cup {NextPage(req)}

\* the page request req was handled as the three transitions say: parse
\* yielded the requests of the transition, and the requests of the page
\* that the engine holds or held are among them
TakesTransition(req) ==
    /\ parse(crawl, req.category, req.index).requests = C15_Transition(req)
    /\ NextPage(req) \in crawl.pending \cup crawl.handled
          <=> NextPage(req) \in C15_Transition(req)
    /\ \A q \in crawl.pending \cup crawl.failed \cup crawl.dropped :
          q.kind = "detail" /\ q.category = req.category
             /\ q.index = req.index
          => q \in C15_Transition(req)

C15_OneOfThreeTransitions ==
    crawl.on =>
       \A req \in crawl.handled :
          PageDates(req) # {} => TakesTransition(req)

\* the same on the pages that hold two entries or more, where the parsed
\* page is a list
C15_OnPagesOfSeveralEntries ==
    crawl.on =>
       \A req \in crawl.handled :
          PageDates(req) # {} /\ Len(PageOf(req)) >= 2 => TakesTransition(req)

(***************************************************************************)
(* C16.  For every category with a finite listing, the traversal issues    *)
(* only finitely many page requests: paging for the category eventually    *)
(* stops, both when the listing holds an entry older than the target date  *)
(* and when every entry of the listing is on or after the target date (so  *)
(* that paging runs past the last page).                                   *)
(***************************************************************************)
\* the page requests issued so far
PageRequests == {q \in crawl.pending \cup crawl.handled : q.kind = "page"}

\* every entry of the listing is dated, on or after the target date
AllOnOrAfterTarget(listing) ==
    \A k \in DOMAIN listing :
       /\ listing[k].approved_date # ""
       /\ strptime(listing[k].approved_date) >= crawl.date

\* no page is requested beyond the first page past the end of the listing,
\* and no index is requested twice: a category of n entries gets at most
\* n \div PageSize + 2 page requests
C16_PagingIsBounded ==
    crawl.on =>
       /\ \A q \in PageRequests :
             q.index = 0 \/ q.index - PageSize < Len(crawl.listing[q.category])
       /\ \A q \in PageRequests :
             q \in crawl.handled /\ q.index >= Len(crawl.listing[q.category])
                => NextPage(q) \notin PageRequests

\* paging ran past the last page of a listing whose entries are all on or
\* after the target date, and stopped there
C16_Witness ==
    /\ CrawlAtRest
    /\ \E q \in crawl.handled :
          /\ q.kind = "page"
          /\ Len(crawl.listing[q.category]) >= PageSize
          /\ AllOnOrAfterTarget(crawl.listing[q.category])
          /\ q.index >= Len(crawl.listing[q.category])

\* under the engine's fairness, paging comes to an end: from some point on
\* no page request is queued
C16_PagingStops ==
    crawl.on => <>[](\A q \in crawl.pending : q.kind # "page")

(***************************************************************************)
(* C17.  When D's store is non-empty and none of its ids occurs in the     *)
(* stores of D-1 through D-7, perform_deduplication(D) returns             *)
(* has_new_content and performs no write or delete on any file: D's store  *)
(* is byte-for-byte the store it read.                                     *)
(***************************************************************************)
\* the call c read D's store, the store holds a record and none of its ids
\* is in a store of the window
ReadsNewContentOnly(c) ==
    /\ arg.valid
    /\ c.pre[arg.day].exists
    /\ ~ReadFailsAt(c.pre, arg.day)
    /\ Records(c.pre[arg.day]) # <<>>
    /\ StoreIds(c.pre[arg.day]) \cap WindowIds(c.pre, arg.day) = {}

C17_NoDuplicateNoMutation ==
    \A n \in DOMAIN calls :
       IsDedup(calls[n]) /\ ReadsNewContentOnly(calls[n]) =>
          /\ calls[n].status = "has_new_content"
          /\ calls[n].post = calls[n].pre

\* a deduplication of a store none of whose ids is in the window, while a
\* store of the window holds a record
C17_Witness ==
    \E n \in DOMAIN calls :
       /\ IsDedup(calls[n])
       /\ ReadsNewContentOnly(calls[n])
       /\ WindowIds(calls[n].pre, arg.day) # {}

(***************************************************************************)
(* C19.  Whenever the workflow gate ends with exit code 0 for date D, D's  *)
(* store file exists, is non-empty, holds each id at most once with a      *)
(* duplicate-free category list, and holds no id that occurs in an         *)
(* existing store of D-1 through D-7; whenever it ends with exit code 1,   *)
(* D's store is absent or holds no record.                                 *)
(***************************************************************************)
\* the store holds each id at most once, each with a duplicate-free
\* category list
IsMerged(file) ==
    /\ \A k, l \in DOMAIN Records(file) :
          k # l => GetId(Records(file)[k]) # GetId(Records(file)[l])
    /\ \A k \in DOMAIN Records(file) :
          Len(Records(file)[k].category)
             = Cardinality(ToSet(Records(file)[k].category))

GateEndedWith(code) ==
    pc = "exited" /\ exitVia = "sys.exit" /\ arg.valid /\ exitCode = code

C19_ExitCodeTellsStore ==
    /\ GateEndedWith(0) =>
          /\ files[arg.day].exists
          /\ Records(files[arg.day]) # <<>>
          /\ IsMerged(files[arg.day])
          /\ StoreIds(files[arg.day]) \cap WindowIds(files, arg.day) = {}
    /\ GateEndedWith(1) =>
          \/ ~files[arg.day].exists
          \/ Records(files[arg.day]) = <<>>

(***************************************************************************)
(* C20.  Whenever perform_merge or perform_deduplication returns error or  *)
(* no_data, D's store is in the state it had when the call began (same     *)
(* existence, same records); in particular a persist that fails in         *)
(* save_papers_data does not leave the store with fewer records than       *)
(* before.                                                                 *)
(***************************************************************************)
C20_FailedCallLeavesStore ==
    \A n \in DOMAIN calls :
       arg.valid /\ calls[n].status \in {"error", "no_data"} =>
          /\ calls[n].post[arg.day].exists = calls[n].pre[arg.day].exists
          /\ Records(calls[n].post[arg.day]) = Records(calls[n].pre[arg.day])

(***************************************************************************)
(* C18.  If the workflow gate is run once for each of a sequence of        *)
(* consecutive dates in increasing order, each run finishing with exit     *)
(* code 0 or 1 and no store being written by anything else afterwards,     *)
(* then after every run any two existing stores of already-processed dates *)
(* that lie at most 7 days apart have disjoint id sets, and each such      *)
(* store has no id twice.                                                  *)
(***************************************************************************)
\* the dates whose run has ended
Processed == {d \in Days : d <= arg.day}

\* the store holds no id twice
NoIdTwice(file) ==
    \A k, l \in DOMAIN Records(file) :
       k # l => GetId(Records(file)[k]) # GetId(Records(file)[l])

C18_ProcessedStoresDisjoint ==
    pc = "exited" /\ exitVia = "sys.exit" /\ exitCode \in {0, 1} =>
       /\ \A d \in Processed : NoIdTwice(files[d])
       /\ \A d1, d2 \in Processed :
             d1 < d2 /\ d2 - d1 <= history_days =>
                StoreIds(files[d1]) \cap StoreIds(files[d2]) = {}

=============================================================================
